---- MODULE Spec2Model ----
(***************************************************************************)
(* A model of gp_sort_sequences.py: sort_sequences and the helpers it      *)
(* calls (_map_sequence_files, _sort_sequence_files, _generate_movie,      *)
(* _build_command, _mkdir, _move), over a small source tree of GoPro-like  *)
(* file names and one destination directory.                               *)
(*                                                                         *)
(* File names are sequences of one-character strings, so that splitext,    *)
(* int(), upper() and str.format are computed as the code computes them.   *)
(* A path is a sequence of components: <<directory, basename>> in the      *)
(* source tree, <<destination, SEQnnn, EXT, basename>> in the destination. *)
(***************************************************************************)
EXTENDS Integers, Sequences, FiniteSets, TLC

\* ------------------------------------------------------------------ bounds
\* Frame numbers of the source tree are 1..MaxKey.
MaxKey == 4
\* A source tree holds at most MaxFiles files.
MaxFiles == 3
\* On a tree of RepeatFiles, up to MaxCalls calls of sort_sequences are made
\* one after the other; on any other tree, one.
MaxCalls == 2

\* --------------------------------------------------------- program constants
IMG_SEQUENCE_EXTENSIONS == << <<"J", "P", "G">>, <<"G", "P", "R">> >>
MOVIE_EXTENSION == <<"M", "P", "4">>
FPS == 30
MOVIE_WIDTH == 1920
\* 'SEQ{:>03d}': the prefix and the minimum width of the number
SEQUENCE_PREFIX == <<"S", "E", "Q">>
SEQUENCE_WIDTH == 3

\* ------------------------------------------------------- string conversions
Digits == <<"0", "1", "2", "3", "4", "5", "6", "7", "8", "9">>
Lower == <<"a", "b", "c", "d", "e", "f", "g", "h", "i", "j", "k", "l", "m",
           "n", "o", "p", "q", "r", "s", "t", "u", "v", "w", "x", "y", "z">>
Upper == <<"A", "B", "C", "D", "E", "F", "G", "H", "I", "J", "K", "L", "M",
           "N", "O", "P", "Q", "R", "S", "T", "U", "V", "W", "X", "Y", "Z">>

IsDigit(c) == \E i \in 1..10 : Digits[i] = c
DigitVal(c) == (CHOOSE i \in 1..10 : Digits[i] = c) - 1

\* int(s) succeeds: s is a non-empty run of decimal digits (the names of the
\* model carry no sign, blank or underscore, which int() would also accept).
IntParses(s) == Len(s) > 0 /\ \A i \in 1..Len(s) : IsDigit(s[i])

RECURSIVE IntOf(_)
\* int(s) for a digit string: leading zeros do not count.
IntOf(s) ==
  IF s = <<>> THEN 0
  ELSE 10 * IntOf(SubSeq(s, 1, Len(s) - 1)) + DigitVal(s[Len(s)])

RECURSIVE DecStr(_)
\* str(n) for n >= 0
DecStr(n) ==
  IF n < 10 THEN <<Digits[n + 1]>>
  ELSE Append(DecStr(n \div 10), Digits[(n % 10) + 1])

RECURSIVE ZeroPad(_, _)
\* '{:>0Wd}': right-aligned, padded with "0" up to width w, never cut
ZeroPad(s, w) == IF Len(s) >= w THEN s ELSE ZeroPad(<<"0">> \o s, w)

\* str.upper() on one character, and on a string
UpperChar(c) ==
  IF \E i \in 1..26 : Lower[i] = c
  THEN Upper[CHOOSE i \in 1..26 : Lower[i] = c]
  ELSE c
StrUpper(s) == [i \in 1..Len(s) |-> UpperChar(s[i])]

\* os.path.splitext: the extension starts at the last dot, unless only dots
\* come before it (a hidden file has no extension).
SplitExt(p) ==
  LET dots == {i \in 1..Len(p) : p[i] = "."}
      dotIndex == IF dots = {} THEN 0
                  ELSE CHOOSE i \in dots : \A j \in dots : j <= i
      real == dotIndex > 0 /\ \E j \in 1..(dotIndex - 1) : p[j] # "."
  IN IF real
     THEN [name |-> SubSeq(p, 1, dotIndex - 1), ext |-> SubSeq(p, dotIndex, Len(p))]
     ELSE [name |-> p, ext |-> <<>>]

\* s[1:]
Rest(s) == IF s = <<>> THEN <<>> ELSE Tail(s)

\* os.path.join(a, b) for a relative b; os.path.basename(p)
Join(a, b) == Append(a, b)
Basename(p) == p[Len(p)]

\* ----------------------------------------------------------- the file names
\* The width the model's camera pads frame numbers to ('{:>07d}' in the test).
NameWidth == 2

\* 'G{}.{}'.format('{:>0Wd}'.format(frame), ext)
GoProName(frame, ext) ==
  <<"G">> \o ZeroPad(DecStr(frame), NameWidth) \o <<".">> \o ext

CameraNames ==
  {GoProName(k, IMG_SEQUENCE_EXTENSIONS[e]) : k \in 1..MaxKey, e \in 1..2}

\* Names a source tree may also hold: frame 1 without padding and with a
\* lowercase extension, a hidden file, a file that is no frame at all.
OtherNames ==
  { <<"G", "1", ".", "j", "p", "g">>,
    <<".", "D", "S">>,
    <<"n", "o", ".", "t", "x", "t">> }

Dirs == {"100GOPRO", "101GOPRO"}

\* Every file a source tree of the model may hold: the first directory holds
\* any name, the second one a JPG of frame 1 (the same basename as in the
\* first directory).
Universe ==
  {<<"100GOPRO", n>> : n \in CameraNames \cup OtherNames}
    \cup {<<"101GOPRO", GoProName(1, IMG_SEQUENCE_EXTENSIONS[1])>>}

Trees == {t \in SUBSET Universe : Cardinality(t) <= MaxFiles}

\* The files of the trees that are sorted more than once: a JPG/GPR pair of
\* frame 1, a JPG of frame 2 without its GPR, the same JPG of frame 1 in the
\* second directory, and a hidden file.
RepeatFiles ==
  { <<"100GOPRO", GoProName(1, IMG_SEQUENCE_EXTENSIONS[1])>>,
    <<"100GOPRO", GoProName(1, IMG_SEQUENCE_EXTENSIONS[2])>>,
    <<"100GOPRO", GoProName(2, IMG_SEQUENCE_EXTENSIONS[1])>>,
    <<"101GOPRO", GoProName(1, IMG_SEQUENCE_EXTENSIONS[1])>>,
    <<"100GOPRO", <<".", "D", "S">> >> }

\* root_directory as the caller gives it: one string, or a list of strings
RootStrings == {"100GOPRO"}
RootLists == { <<"100GOPRO", "101GOPRO">> }

\* destination_directory
Destination == << <<"o", "u", "t">> >>

\* ------------------------------------------------------------------- state
VARIABLES
  src,            \* the files of the source tree (paths)
  dstDirs,        \* the directories under the destination
  dstFiles,       \* the files under the destination
  VERBOSE,        \* the module global __VERBOSE
  DRYRUN,         \* the module global __DRYRUN
  pc,             \* "idle", "index", "sort", "movie"
  outcome,        \* of the last call: "none", "running", "returned", "raised"
  args,           \* the arguments of the current (or last) call
  ri,             \* _map_sequence_files: position in root_directory
  walk,           \* _map_sequence_files: files of the current root still to visit
  file_mapping,   \* key -> insertion-ordered items [ext, path]
  groups,         \* _sort_sequence_files: the groups of groupby, in order
  seq_counter,    \* _sort_sequence_files: seq_counter
  ki,             \* position in the current group's manifest (0: folder not made)
  ei,             \* position in file_mapping[key].items()
  sorted_files,   \* insertion-ordered [path, exts], exts insertion-ordered [ext, files]
  mi,             \* _generate_movie: position in sorted_files
  xi,             \* _generate_movie: position in sorted_files[sequence]
  movies,         \* _generate_movie: movies
  built,          \* the commands _build_command built in this call
  procs,          \* the encoder commands this call started (Popen)
  moves,          \* the moves this call performed (shutil.move)
  start,          \* the filesystem when the call started
  prev,           \* the call before, if a dry run that returned: input and manifest
  calls,          \* the number of calls made
  budget          \* the number of calls this behaviour may make

vars == <<src, dstDirs, dstFiles, VERBOSE, DRYRUN, pc, outcome, args, ri, walk,
          file_mapping, groups, seq_counter, ki, ei, sorted_files, mi, xi,
          movies, built, procs, moves, start, prev, calls, budget>>

fsvars == <<src, dstDirs, dstFiles>>
indexvars == <<ri, walk, file_mapping>>
sortvars == <<groups, seq_counter, ki, ei>>
movievars == <<mi, xi, movies, built>>
histvars == <<start, prev, calls, budget>>

NoArgs == [root_directory |-> <<>>, dryrun |-> FALSE, verbose |-> FALSE, movie |-> FALSE]
NoPrev == [tree |-> {}, root_directory |-> <<>>, movie |-> FALSE, manifest |-> <<>>]

Init ==
  /\ src \in Trees
  /\ dstDirs = {}
  /\ dstFiles = {}
  /\ VERBOSE = FALSE
  /\ DRYRUN = FALSE
  /\ pc = "idle"
  /\ outcome = "none"
  /\ args = NoArgs
  /\ ri = 1
  /\ walk = {}
  /\ file_mapping = <<>>
  /\ groups = <<>>
  /\ seq_counter = 1
  /\ ki = 0
  /\ ei = 1
  /\ sorted_files = <<>>
  /\ mi = 1
  /\ xi = 1
  /\ movies = <<>>
  /\ built = <<>>
  /\ procs = <<>>
  /\ moves = <<>>
  /\ start = [src |-> src, dstDirs |-> {}, dstFiles |-> {}]
  /\ prev = NoPrev
  /\ calls = 0
  /\ budget = IF src \subseteq RepeatFiles THEN MaxCalls ELSE 1

\* ------------------------------------------------------------ pure helpers
\* isinstance(root_directory, list) or [root_directory]
WrapRoots(root_directory, isList) ==
  IF isList THEN root_directory ELSE <<root_directory>>

\* the files os.walk(folder) yields, on the filesystem fs
FilesIn(fs, folder) == {f \in fs : f[1] = folder}

\* d.update({k: v}) on an insertion-ordered dict d of [ext, path] items
ItemsUpdate(items, ext, path) ==
  IF \E i \in 1..Len(items) : items[i].ext = ext
  THEN [i \in 1..Len(items) |->
          IF items[i].ext = ext THEN [ext |-> ext, path |-> path] ELSE items[i]]
  ELSE Append(items, [ext |-> ext, path |-> path])

\* file_mapping.setdefault(key, {}).update({ext: path})
MapUpdate(fm, key, ext, path) ==
  IF key \in DOMAIN fm
  THEN [fm EXCEPT ![key] = ItemsUpdate(fm[key], ext, path)]
  ELSE [k \in DOMAIN fm \cup {key} |->
          IF k = key THEN ItemsUpdate(<<>>, ext, path) ELSE fm[k]]

\* a slip of ExtKey: the extension is normalized to upper case
ExtKeyUpper(fi) == StrUpper(Rest(SplitExt(fi).ext))

\* the extension key of a file name: ext[1:] of splitext
ExtKey(fi) == Rest(SplitExt(fi).ext)

\* the digits of a file name: name[1:] of splitext
KeyDigits(fi) == Rest(SplitExt(fi).name)

RECURSIVE SortKeys(_)
\* keys = [*file_mapping]; keys.sort()
SortKeys(S) ==
  IF S = {} THEN <<>>
  ELSE LET m == CHOOSE x \in S : \A y \in S : x <= y
       IN <<m>> \o SortKeys(S \ {m})

\* a slip of GroupKey: the position is added to the key
GroupKeySum(keys, i) == (i - 1) + keys[i]

\* lambda ix: ix[0] - ix[1] on enumerate(keys): i counts from 0
GroupKey(keys, i) == (i - 1) - keys[i]

RECURSIVE GroupBy(_, _)
\* groupby(enumerate(keys), key): the maximal blocks of neighbours with
\* equal group keys, from position i on, each as list(map(itemgetter(1), g))
GroupBy(keys, i) ==
  IF i > Len(keys) THEN <<>>
  ELSE LET same == {j \in i..Len(keys) :
                      \A h \in i..j : GroupKey(keys, h) = GroupKey(keys, i)}
           last == CHOOSE j \in same : \A h \in same : h <= j
       IN <<SubSeq(keys, i, last)>> \o GroupBy(keys, last + 1)

\* SEQUENCE_FOLDER.format(seq_counter)
SeqName(n) == SEQUENCE_PREFIX \o ZeroPad(DecStr(n), SEQUENCE_WIDTH)

\* os.path.join(destination_directory, seq_name)
SeqFolderPath(n) == Join(Destination, SeqName(n))

\* a slip of Record: the list is set to [name] instead of appended to
RecordReplace(sf, ext, name) ==
  LET n == Len(sf)
      exts == sf[n].exts
      exts2 == IF \E i \in 1..Len(exts) : exts[i].ext = ext
               THEN [i \in 1..Len(exts) |->
                       IF exts[i].ext = ext
                       THEN [ext |-> ext, files |-> <<name>>]
                       ELSE exts[i]]
               ELSE Append(exts, [ext |-> ext, files |-> <<name>>])
  IN [sf EXCEPT ![n].exts = exts2]

\* sorted_files[seq].setdefault(ext, []).append(name), seq the last entry
Record(sf, ext, name) ==
  LET n == Len(sf)
      exts == sf[n].exts
      exts2 == IF \E i \in 1..Len(exts) : exts[i].ext = ext
               THEN [i \in 1..Len(exts) |->
                       IF exts[i].ext = ext
                       THEN [ext |-> ext, files |-> Append(exts[i].files, name)]
                       ELSE exts[i]]
               ELSE Append(exts, [ext |-> ext, files |-> <<name>>])
  IN [sf EXCEPT ![n].exts = exts2]

\* _build_command(sequence, name, ext): the command and the output file
BuildCommand(sequence, name, ext) ==
  LET basename == SplitExt(name).name
      file_ext == SplitExt(name).ext
      pattern == <<basename[1], "%">> \o ZeroPad(DecStr(Len(Rest(basename))), 3)
                   \o <<"d">> \o file_ext
      output_file == Join(sequence, Basename(sequence) \o <<".">> \o MOVIE_EXTENSION)
  IN [fps |-> FPS,
      start_number |-> Rest(basename),
      input_file |-> Join(Join(sequence, ext), pattern),
      output_file |-> output_file,
      movie_width |-> MOVIE_WIDTH]

\* movies.setdefault(sequence, {}).setdefault(MOVIE_EXTENSION, []).append(f)
MoviesAdd(mv, sequence, f) ==
  IF \E i \in 1..Len(mv) : mv[i].path = sequence
  THEN [i \in 1..Len(mv) |->
          IF mv[i].path = sequence
          THEN [path |-> sequence, files |-> Append(mv[i].files, f)]
          ELSE mv[i]]
  ELSE Append(mv, [path |-> sequence, files |-> <<f>>])

\* for sequence in movies: sorted_files[sequence].update(movies[sequence])
MergeMovies(sf, mv) ==
  [s \in 1..Len(sf) |->
     IF \E i \in 1..Len(mv) : mv[i].path = sf[s].path
     THEN LET m == mv[CHOOSE i \in 1..Len(mv) : mv[i].path = sf[s].path]
              exts == sf[s].exts
              item == [ext |-> MOVIE_EXTENSION, files |-> m.files]
          IN [sf[s] EXCEPT !.exts =
                IF \E j \in 1..Len(exts) : exts[j].ext = MOVIE_EXTENSION
                THEN [j \in 1..Len(exts) |->
                        IF exts[j].ext = MOVIE_EXTENSION THEN item ELSE exts[j]]
                ELSE Append(exts, item)]
     ELSE sf[s]]

\* ------------------------------------------------------------------ actions
\* set_params(x, y)
SetParams(x, y) == VERBOSE' = x /\ DRYRUN' = y

\* a slip of Raise: the exception leaves without the flags being reset
RaiseKeepFlags ==
  /\ UNCHANGED <<VERBOSE, DRYRUN>>
  /\ pc' = "idle"
  /\ outcome' = "raised"

\* except: set_params(False, False); raise
Raise ==
  /\ SetParams(FALSE, FALSE)
  /\ pc' = "idle"
  /\ outcome' = "raised"

\* set_params(False, False); return sorted_files
Return ==
  /\ SetParams(FALSE, FALSE)
  /\ pc' = "idle"
  /\ outcome' = "returned"

\* os.path.exists(path)
Exists(path) == path \in dstDirs \/ path \in dstFiles

\* _mkdir(path) calls os.mkdir(path)
MkdirNeeded(path) == ~Exists(path) /\ ~DRYRUN

\* a slip of MoveNeeded: the move is made in a dry run too
MoveAlways == TRUE

\* _move(src, dst) calls shutil.move(src, dst)
MoveNeeded == ~DRYRUN

\* a slip of RecordEntry: the basename is recorded only when the file moved
RecordIfMoved(sf, ext, name) == IF DRYRUN THEN sf ELSE Record(sf, ext, name)

\* _sort_sequence_files records the basename, moved or not
RecordEntry(sf, ext, name) == Record(sf, ext, name)

\* _generate_movie starts the encoder: Popen(cmd)
PopenNeeded == ~DRYRUN

\* what the call that ended leaves for the next one to be compared with
Summary ==
  IF outcome = "returned" /\ args.dryrun
  THEN [tree |-> start.src, root_directory |-> args.root_directory,
        movie |-> args.movie, manifest |-> sorted_files]
  ELSE NoPrev

\* sort_sequences(root_directory, destination_directory, dryrun, verbose,
\* movie), up to the call of _map_sequence_files
Call(root_directory, isList, dryrun, verbose, movie) ==
  /\ pc = "idle"
  /\ calls < budget
  /\ SetParams(verbose, dryrun)
  /\ args' = [root_directory |-> WrapRoots(root_directory, isList),
              dryrun |-> dryrun, verbose |-> verbose, movie |-> movie]
  /\ pc' = "index"
  /\ outcome' = "running"
  /\ ri' = 1
  /\ walk' = FilesIn(src, args'.root_directory[1])
  /\ file_mapping' = <<>>
  /\ groups' = <<>>
  /\ seq_counter' = 1
  /\ ki' = 0
  /\ ei' = 1
  /\ sorted_files' = <<>>
  /\ mi' = 1
  /\ xi' = 1
  /\ movies' = <<>>
  /\ built' = <<>>
  /\ procs' = <<>>
  /\ moves' = <<>>
  /\ start' = [src |-> src, dstDirs |-> dstDirs, dstFiles |-> dstFiles]
  /\ prev' = Summary
  /\ calls' = calls + 1
  /\ UNCHANGED <<fsvars, budget>>

\* _map_sequence_files: the body of "for fi in files", for one file, in
\* whatever order os.walk lists the files
IndexFile ==
  /\ pc = "index"
  /\ \E f \in walk :
       LET fi == Basename(f)
       IN IF IntParses(KeyDigits(fi))
          THEN /\ file_mapping' = MapUpdate(file_mapping, IntOf(KeyDigits(fi)), ExtKey(fi), f)
               /\ walk' = walk \ {f}
               /\ UNCHANGED <<VERBOSE, DRYRUN, pc, outcome>>
          ELSE /\ Raise
               /\ UNCHANGED <<walk, file_mapping>>
  /\ UNCHANGED <<fsvars, args, ri, sortvars, sorted_files, movievars, procs,
                 moves, histvars>>

\* _map_sequence_files: "for each_folder in root_directory" moves on
NextRoot ==
  /\ pc = "index"
  /\ walk = {}
  /\ ri < Len(args.root_directory)
  /\ ri' = ri + 1
  /\ walk' = FilesIn(src, args.root_directory[ri + 1])
  /\ UNCHANGED <<fsvars, VERBOSE, DRYRUN, pc, outcome, args, file_mapping,
                 sortvars, sorted_files, movievars, procs, moves, histvars>>

\* a slip of IndexDone: the index is returned after the first root
IndexDoneEarly ==
  /\ pc = "index"
  /\ walk = {}
  /\ pc' = "sort"
  /\ groups' = GroupBy(SortKeys(DOMAIN file_mapping), 1)
  /\ seq_counter' = 1
  /\ ki' = 0
  /\ ei' = 1
  /\ UNCHANGED <<fsvars, VERBOSE, DRYRUN, outcome, args, indexvars,
                 sorted_files, movievars, procs, moves, histvars>>

\* _map_sequence_files returns; _sort_sequence_files sorts and groups the keys
IndexDone ==
  /\ pc = "index"
  /\ walk = {}
  /\ ri = Len(args.root_directory)
  /\ pc' = "sort"
  /\ groups' = GroupBy(SortKeys(DOMAIN file_mapping), 1)
  /\ seq_counter' = 1
  /\ ki' = 0
  /\ ei' = 1
  /\ UNCHANGED <<fsvars, VERBOSE, DRYRUN, outcome, args, indexvars,
                 sorted_files, movievars, procs, moves, histvars>>

\* _sort_sequence_files: the head of the loop over the groups: the sequence
\* folder is entered in sorted_files and made
SeqFolder ==
  /\ pc = "sort"
  /\ seq_counter <= Len(groups)
  /\ ki = 0
  /\ LET seq_folder_path == SeqFolderPath(seq_counter)
     IN \E mk_ok \in BOOLEAN :
          IF MkdirNeeded(seq_folder_path) /\ ~mk_ok
          THEN /\ Raise
               /\ UNCHANGED <<fsvars, ki>>
          ELSE /\ dstDirs' = IF MkdirNeeded(seq_folder_path)
                             THEN dstDirs \cup {seq_folder_path} ELSE dstDirs
               /\ ki' = 1
               /\ UNCHANGED <<src, dstFiles, VERBOSE, DRYRUN, pc, outcome>>
  /\ sorted_files' = Append(sorted_files,
                            [path |-> SeqFolderPath(seq_counter), exts |-> <<>>])
  /\ UNCHANGED <<args, indexvars, groups, seq_counter, ei, movievars, procs,
                 moves, histvars>>

\* _sort_sequence_files: the body of "for ext, path in items" for one item:
\* the extension folder is made, the file moved and its basename recorded
MoveEntry ==
  /\ pc = "sort"
  /\ seq_counter <= Len(groups)
  /\ ki >= 1
  /\ LET key == groups[seq_counter][ki]
         item == file_mapping[key][ei]
         ext_path == Join(SeqFolderPath(seq_counter), item.ext)
         target == Join(ext_path, Basename(item.path))
         lastItem == ei = Len(file_mapping[key])
         lastKey == ki = Len(groups[seq_counter])
     IN \E mk_ok, mv_ok \in BOOLEAN :
          LET made == IF MkdirNeeded(ext_path) /\ mk_ok
                      THEN dstDirs \cup {ext_path} ELSE dstDirs
          IN IF MkdirNeeded(ext_path) /\ ~mk_ok
             THEN /\ Raise
                  /\ UNCHANGED <<fsvars, seq_counter, ki, ei, sorted_files, moves>>
             ELSE IF MoveNeeded /\ (~mv_ok \/ target \in dstFiles)
             THEN /\ dstDirs' = made
                  /\ Raise
                  /\ UNCHANGED <<src, dstFiles, seq_counter, ki, ei, sorted_files, moves>>
             ELSE /\ dstDirs' = made
                  /\ IF MoveNeeded
                     THEN /\ src' = src \ {item.path}
                          /\ dstFiles' = dstFiles \cup {target}
                          /\ moves' = Append(moves, [src |-> item.path, dst |-> ext_path])
                     ELSE UNCHANGED <<src, dstFiles, moves>>
                  /\ sorted_files' = RecordEntry(sorted_files, item.ext, Basename(item.path))
                  /\ ei' = IF lastItem THEN 1 ELSE ei + 1
                  /\ ki' = IF ~lastItem THEN ki ELSE IF lastKey THEN 0 ELSE ki + 1
                  /\ seq_counter' = IF lastItem /\ lastKey
                                    THEN seq_counter + 1 ELSE seq_counter
                  /\ UNCHANGED <<VERBOSE, DRYRUN, pc, outcome>>
  /\ UNCHANGED <<args, indexvars, groups, movievars, procs, histvars>>

\* _sort_sequence_files returns; without movie, sort_sequences returns
SortDone ==
  /\ pc = "sort"
  /\ seq_counter > Len(groups)
  /\ IF args.movie
     THEN /\ pc' = "movie"
          /\ mi' = 1
          /\ xi' = 1
          /\ UNCHANGED <<VERBOSE, DRYRUN, outcome>>
     ELSE /\ Return
          /\ UNCHANGED <<mi, xi>>
  /\ UNCHANGED <<fsvars, args, indexvars, sortvars, sorted_files, movies,
                 built, procs, moves, histvars>>

\* a slip of FirstFile: the last file of the list is taken
LastFile(files) == files[Len(files)]

\* name = sorted_files[sequence][ext][0]
FirstFile(files) == files[1]

\* _generate_movie: the body of "for ext in sorted_files[sequence]" for one
\* extension (a sequence without extensions is passed over): the command is
\* built and, unless dry, the encoder is run
MovieStep ==
  /\ pc = "movie"
  /\ mi <= Len(sorted_files)
  /\ LET sequence == sorted_files[mi].path
         exts == sorted_files[mi].exts
         lastExt == xi >= Len(exts)
         next == /\ xi' = IF lastExt THEN 1 ELSE xi + 1
                 /\ mi' = IF lastExt THEN mi + 1 ELSE mi
     IN IF exts = <<>> \/ StrUpper(exts[xi].ext) # IMG_SEQUENCE_EXTENSIONS[1]
        THEN /\ next
             /\ UNCHANGED <<VERBOSE, DRYRUN, pc, outcome, movies, built, procs>>
        ELSE LET cmd == BuildCommand(sequence, FirstFile(exts[xi].files), exts[xi].ext)
             IN /\ movies' = MoviesAdd(movies, sequence, cmd.output_file)
                /\ built' = Append(built, [seq |-> mi, ext |-> exts[xi].ext, cmd |-> cmd])
                /\ \E popen \in {"oserror", "zero", "nonzero"} :
                     IF PopenNeeded /\ popen = "oserror"
                     THEN /\ Raise
                          /\ UNCHANGED <<mi, xi, procs>>
                     ELSE /\ next
                          /\ procs' = IF PopenNeeded
                                      THEN Append(procs, [cmd |-> cmd, returncode |-> popen])
                                      ELSE procs
                          /\ UNCHANGED <<VERBOSE, DRYRUN, pc, outcome>>
  /\ UNCHANGED <<fsvars, args, indexvars, sortvars, sorted_files, moves, histvars>>

\* _generate_movie returns; the movies are merged and sort_sequences returns
MovieDone ==
  /\ pc = "movie"
  /\ mi > Len(sorted_files)
  /\ sorted_files' = MergeMovies(sorted_files, movies)
  /\ Return
  /\ UNCHANGED <<fsvars, args, indexvars, sortvars, movievars, procs, moves,
                 histvars>>

Next ==
  \/ \E rd \in RootStrings, dryrun, verbose, movie \in BOOLEAN :
       Call(rd, FALSE, dryrun, verbose, movie)
  \/ \E rd \in RootLists, dryrun, verbose, movie \in BOOLEAN :
       Call(rd, TRUE, dryrun, verbose, movie)
  \/ IndexFile
  \/ NextRoot
  \/ IndexDone
  \/ SeqFolder
  \/ MoveEntry
  \/ SortDone
  \/ MovieStep
  \/ MovieDone

Spec == Init /\ [][Next]_vars

\* ------------------------------------------------- what the claims speak of
\* the entries (key, extension, path) of the file index
EntriesOf(fm) ==
  {[key |-> x[1], ext |-> fm[x[1]][x[2]].ext, path |-> fm[x[1]][x[2]].path] :
     x \in {y \in (DOMAIN fm) \X (1..(MaxFiles + 1)) : y[2] <= Len(fm[y[1]])}}

Entries == EntriesOf(file_mapping)

\* the keys of a run, as a set
RunKeys(g) == {groups[g][i] : i \in 1..Len(groups[g])}

\* the groups of the call have been computed
Grouped == pc \in {"sort", "movie"} \/ outcome = "returned"

\* the frame number a listed basename carries
FrameOf(name) == IntOf(KeyDigits(name))

\* the folder SEQ00i, written out (i <= 9)
SeqFolderOf(i) == Append(Destination, <<"S", "E", "Q", "0", "0", Digits[i + 1]>>)

\* C1: the runs are the maximal blocks of consecutive integers of the key
\* set, in ascending order: non-empty, disjoint, covering the key set, with
\* neighbours one apart inside a run and more than one apart across runs; the
\* i-th run's folder is SEQ<i, three digits>, and it lists the files of the
\* run's keys, whatever order the files were visited in.
C1_RunsAreMaximalBlocks ==
  Grouped =>
    /\ \A g \in 1..Len(groups) : Len(groups[g]) >= 1
    /\ UNION {RunKeys(g) : g \in 1..Len(groups)} = DOMAIN file_mapping
    /\ \A g, h \in 1..Len(groups) : g # h => RunKeys(g) \cap RunKeys(h) = {}
    /\ \A g \in 1..Len(groups) : \A i \in 1..(Len(groups[g]) - 1) :
         groups[g][i + 1] - groups[g][i] = 1
    /\ \A g \in 1..(Len(groups) - 1) :
         groups[g + 1][1] - groups[g][Len(groups[g])] > 1
    /\ \A s \in 1..Len(sorted_files) :
         /\ s <= Len(groups)
         /\ sorted_files[s].path = SeqFolderOf(s)
         /\ \A j \in 1..Len(sorted_files[s].exts) :
              sorted_files[s].exts[j].ext # MOVIE_EXTENSION =>
                \A q \in 1..Len(sorted_files[s].exts[j].files) :
                  FrameOf(sorted_files[s].exts[j].files[q]) \in RunKeys(s)
    /\ outcome = "returned" => Len(sorted_files) = Len(groups)

\* C1 witness: a real run that returned with the keys 1, 2 and 4: two runs,
\* the first of two keys.
C1_Witness ==
  /\ outcome = "returned"
  /\ ~args.dryrun
  /\ groups = << <<1, 2>>, <<4>> >>
  /\ Len(sorted_files) = 2

\* the lists of the manifest that hold source files: <<s, j>> for
\* sorted_files[s].exts[j], the preview list aside
FileLists ==
  {<<s, j>> \in (1..Len(sorted_files)) \X (1..(MaxFiles + 1)) :
     /\ j <= Len(sorted_files[s].exts)
     /\ sorted_files[s].exts[j].ext # MOVIE_EXTENSION}

\* the frame numbers listed in sorted_files[s].exts[j]
Frames(s, j) ==
  {FrameOf(sorted_files[s].exts[j].files[q]) :
     q \in 1..Len(sorted_files[s].exts[j].files)}

SetMin(S) == CHOOSE x \in S : \A y \in S : x <= y
SetMax(S) == CHOOSE x \in S : \A y \in S : y <= x

\* C2 (as claimed): in a returned manifest, the frame numbers of every JPG and
\* GPR list are the full range from their minimum to their maximum.
C2_ListsHaveNoGaps ==
  outcome = "returned" =>
    \A l \in FileLists :
      (\E e \in 1..2 : sorted_files[l[1]].exts[l[2]].ext = IMG_SEQUENCE_EXTENSIONS[e])
        => Frames(l[1], l[2]) = SetMin(Frames(l[1], l[2]))..SetMax(Frames(l[1], l[2]))

\* C3: during and after a call with dryrun=True, with or without movie, the
\* source tree, the destination's directories and files are as they were when
\* the call started, and no file was moved and no encoder started.
C3_DryRunTouchesNothing ==
  (outcome # "none" /\ args.dryrun) =>
    /\ src = start.src
    /\ dstDirs = start.dstDirs
    /\ dstFiles = start.dstFiles
    /\ moves = <<>>
    /\ procs = <<>>

\* C3 witness: a dry run with movie=True returned, having indexed two runs and
\* built a command.
C3_Witness ==
  /\ outcome = "returned"
  /\ args.dryrun
  /\ args.movie
  /\ Len(groups) = 2
  /\ built # <<>>

\* the shape of a manifest: folder paths, extension keys, files per extension
Shape(m) ==
  {<<m[l[1]].path, m[l[1]].exts[l[2]].ext, Len(m[l[1]].exts[l[2]].files)>> :
     l \in {l \in (1..Len(m)) \X (1..(MaxFiles + 2)) : l[2] <= Len(m[l[1]].exts)}}

\* the call that returned is a real run, and the call before was a dry run
\* that returned, on the same tree, roots and movie flag
RealAfterDry ==
  /\ outcome = "returned"
  /\ ~args.dryrun
  /\ prev # NoPrev
  /\ prev.tree = start.src
  /\ prev.root_directory = args.root_directory
  /\ prev.movie = args.movie

\* C4: the manifest of a dry run and the manifest of a real run that returns,
\* on the same tree and destination, have the same sequence folders, the same
\* extension keys under each and as many files per extension.
C4_DryRunSameShape ==
  RealAfterDry => Shape(prev.manifest) = Shape(sorted_files)

\* C4 witness: a dry run then a real run, with movie=True, of a tree with a
\* JPG/GPR pair of frame 1 and a lone JPG of frame 2.
C4_Witness ==
  /\ RealAfterDry
  /\ args.movie
  /\ Cardinality(Shape(sorted_files)) = 3
  /\ \E x \in Shape(sorted_files) : x[3] = 2
  /\ Len(moves) = 3

\* C5: between calls both flags are False, whether the call returned or
\* raised, and in whatever phase; inside a call they are the call's own
\* arguments, so a real run is never taken for a dry run.
C5_FlagsAreCallScoped ==
  /\ pc = "idle" => (~DRYRUN /\ ~VERBOSE)
  /\ pc # "idle" => (DRYRUN = args.dryrun /\ VERBOSE = args.verbose)
  /\ (outcome = "returned" /\ ~args.dryrun) => Len(moves) = Cardinality(Entries)

\* C5 witness: a real run that moved files returned right after a verbose dry
\* run of the same tree.
C5_Witness ==
  /\ calls = 2
  /\ RealAfterDry
  /\ moves # <<>>
  /\ pc = "idle"

\* C6 (as claimed): a file whose name does not parse is passed over: a call
\* never ends raised with files of the walk still to visit.
C6_UnparsableIsSkipped ==
  ~(outcome = "raised" /\ walk # {})

\* the run a key is in
RunOf(k) == CHOOSE g \in 1..Len(groups) : k \in RunKeys(g)

\* C7 (as claimed): the start number of every command built is the minimum
\* key of its run.
C7_StartIsRunMinimum ==
  \A i \in 1..Len(built) :
    IntOf(built[i].cmd.start_number) = groups[built[i].seq][1]

\* the keys of run g that have a file under the extension ext
KeysWith(g, ext) == {e.key : e \in {x \in Entries : x.key \in RunKeys(g) /\ x.ext = ext}}

\* C7 (amended): a command is built for every list of a run whose extension
\* is JPG in upper case, and its start number is the smallest key of the run
\* that has a file under that extension.
C7_StartIsFirstListedKey ==
  /\ \A i \in 1..Len(built) :
       /\ StrUpper(built[i].ext) = IMG_SEQUENCE_EXTENSIONS[1]
       /\ IntOf(built[i].cmd.start_number) = SetMin(KeysWith(built[i].seq, built[i].ext))
  /\ (outcome = "returned" /\ args.movie) =>
       \A e \in Entries :
         StrUpper(e.ext) = IMG_SEQUENCE_EXTENSIONS[1] =>
           \E i \in 1..Len(built) : built[i].seq = RunOf(e.key) /\ built[i].ext = e.ext

\* C7 witness: a command was built for a run whose minimum key has no JPG.
C7_Witness ==
  /\ outcome = "returned"
  /\ \E i \in 1..Len(built) :
       /\ IntOf(built[i].cmd.start_number) > groups[built[i].seq][1]
       /\ built[i].cmd.start_number = <<"0", "2">>

\* every file of the call's roots is in the index
IndexedAll ==
  \A f \in start.src :
    (\E r \in 1..Len(args.root_directory) : args.root_directory[r] = f[1]) =>
      /\ IntParses(KeyDigits(Basename(f)))
      /\ \E e \in Entries : e.key = FrameOf(Basename(f)) /\ e.ext = ExtKey(Basename(f))

\* every entry of the index has been moved
AllMoved == \A e \in Entries : \E i \in 1..Len(moves) : moves[i].src = e.path

\* the moves of the log are in place: the file is in its folder, not in the tree
MovesInPlace(mv, tree, files) ==
  \A i \in 1..Len(mv) :
    Join(mv[i].dst, Basename(mv[i].src)) \in files /\ mv[i].src \notin tree

\* C8: no directory is made and no file moved before every file of every root
\* is indexed; no encoder is started before every entry of every run is
\* moved; a failed directory creation or move ends the call raised, with
\* nothing moved or started by that step or after it, and the moves made
\* before stay in place.
C8_PhasesInOrder ==
  [][ /\ (Len(moves') > Len(moves) \/ dstDirs' # dstDirs \/ dstFiles' # dstFiles) =>
           (pc = "sort" /\ IndexedAll)
      /\ Len(procs') > Len(procs) =>
           (pc = "movie" /\ AllMoved /\ seq_counter > Len(groups))
      /\ (pc = "sort" /\ pc' = "idle" /\ seq_counter <= Len(groups)) =>
           /\ outcome' = "raised"
           /\ src' = src /\ dstFiles' = dstFiles /\ moves' = moves /\ procs' = procs
      /\ (outcome = "raised" /\ outcome' = "raised") =>
           UNCHANGED <<fsvars, moves, procs>>
      /\ outcome' = "raised" => MovesInPlace(moves', src', dstFiles')
    ]_vars

\* C8 witness: a call on two roots raised in the middle of the moves, after
\* at least one of them.
C8_Witness ==
  /\ outcome = "raised"
  /\ pc = "idle"
  /\ Len(args.root_directory) = 2
  /\ seq_counter <= Len(groups)
  /\ moves # <<>>
  /\ Len(moves) < Cardinality(Entries)

\* the places of the manifest where source files are listed
Positions ==
  {<<l[1], l[2], q>> : <<l, q>> \in
     {y \in FileLists \X (1..(MaxFiles + 1)) :
        y[2] <= Len(sorted_files[y[1][1]].exts[y[1][2]].files)}}

\* C9: in a returned manifest every entry of the index is listed exactly once,
\* by the basename of its path, under its extension in the folder of its
\* key's run, and nothing else is listed; every list is in ascending key
\* order; a real run made exactly one move per entry, into
\* <destination>/SEQ<ordinal>/<extension>, and a dry run none.
C9_EachEntryListedOnce ==
  outcome = "returned" =>
    /\ \A e \in Entries :
         /\ Cardinality({p \in Positions :
              sorted_files[p[1]].exts[p[2]].files[p[3]] = Basename(e.path)}) = 1
         /\ \E p \in Positions :
              /\ sorted_files[p[1]].exts[p[2]].files[p[3]] = Basename(e.path)
              /\ p[1] = RunOf(e.key)
              /\ sorted_files[p[1]].exts[p[2]].ext = e.ext
    /\ Cardinality(Positions) = Cardinality(Entries)
    /\ \A l \in FileLists :
         \A q \in 1..(Len(sorted_files[l[1]].exts[l[2]].files) - 1) :
           FrameOf(sorted_files[l[1]].exts[l[2]].files[q])
             < FrameOf(sorted_files[l[1]].exts[l[2]].files[q + 1])
    /\ IF args.dryrun THEN moves = <<>>
       ELSE /\ Len(moves) = Cardinality(Entries)
            /\ \A e \in Entries :
                 \E i \in 1..Len(moves) :
                   /\ moves[i].src = e.path
                   /\ moves[i].dst = Join(SeqFolderOf(RunOf(e.key)), e.ext)
            /\ MovesInPlace(moves, src, dstFiles)

\* C9 witness: a real run returned with a run of two keys of which one has a
\* JPG and a GPR and the other only one of them.
C9_Witness ==
  /\ outcome = "returned"
  /\ ~args.dryrun
  /\ Len(groups) = 1
  /\ Cardinality(Entries) = 3
  /\ Len(moves) = 3
  /\ \E l \in FileLists : Len(sorted_files[l[1]].exts[l[2]].files) = 2
  /\ \E l \in FileLists : Len(sorted_files[l[1]].exts[l[2]].files) = 1

\* C10 (as claimed): every extension key of the index is in upper case.
C10_ExtensionsAreUpper ==
  \A e \in Entries : e.ext = StrUpper(e.ext)

\* the extension as the file name has it: what follows the last dot
WrittenExt(fi) ==
  LET dots == {i \in 1..Len(fi) : fi[i] = "."}
  IN IF dots = {} THEN <<>> ELSE SubSeq(fi, SetMax(dots) + 1, Len(fi))

\* every list of the manifest is keyed by the extension its files have
ListsKeyedAsWritten ==
  \A p \in Positions :
    sorted_files[p[1]].exts[p[2]].ext
      = WrittenExt(sorted_files[p[1]].exts[p[2]].files[p[3]])

\* C10 (amended): the index builder keeps the extension as written, without
\* the separator: visiting a file sets the entry of its frame number and its
\* extension as written to its path, replacing the entry there was for the
\* same number and the same extension (last one wins) and leaving every other
\* entry, a same-numbered file whose extension differs in case included; the
\* lists of the manifest are keyed by the extension their files have.
C10_ExtensionsKeptAsWritten ==
  [][ /\ (pc = "index" /\ walk' # walk /\ walk' \subseteq walk) =>
           LET f == CHOOSE x \in walk \ walk' : TRUE
               k == FrameOf(Basename(f))
               w == WrittenExt(Basename(f))
           IN EntriesOf(file_mapping')
                = {e \in Entries : ~(e.key = k /\ e.ext = w)}
                    \cup {[key |-> k, ext |-> w, path |-> f]}
      /\ ListsKeyedAsWritten'
    ]_vars

\* C10 witness: frame 1 is indexed from three files: G01.JPG of both roots, of
\* which the one visited last is kept, and G1.jpg, kept beside it.
C10_Witness ==
  /\ pc = "sort"
  /\ Cardinality(start.src) = 3
  /\ DOMAIN file_mapping = {1}
  /\ Cardinality(Entries) = 2
  /\ \E e \in Entries : e.ext = <<"j", "p", "g">>
  /\ \E e \in Entries : e.path[1] = "101GOPRO"

====
